---------------------------- MODULE Spec2Model ----------------------------
(***************************************************************************)
(* Model of schnetpack's command line entry point train() (cli.py) and of  *)
(* ExclusionTransformer.forward (exclusion_transformer.py).                *)
(*                                                                         *)
(* train() is modelled as a sequential process over a working directory.   *)
(* One invocation is one run of the process; several invocations follow    *)
(* each other in the same working directory.  The external collaborators   *)
(* (hydra instantiation, torch.load, np.load, the checkpoint loader) are   *)
(* modelled by their outcome: they return, or they raise and the process   *)
(* ends with the exception.                                                *)
(***************************************************************************)
EXTENDS Integers, Sequences, FiniteSets, TLC

\* ---------------------------------------------------------------- bounds
MaxRuns == 3        \* invocations of train() in one working directory
MaxArchive == 3     \* highest config.old.<n>.yaml index present initially
MaxCount == 2       \* longest index array of a partition file
MaxLen == 4         \* longest atomic-numbers tensor
MaxExcl == 2        \* longest exclusion list

\* ------------------------------------------------------------ file system
None == "None"

\* The configurations hydra can hand to train().  data_dir is "???" when
\* OmegaConf.is_missing(config, "run.data_dir") holds.  run_id stands for
\* the rest of the configuration's content.
Config ==
  [data_dir : {"???", "/data"}, has_data : BOOLEAN, has_model : BOOLEAN,
   ckpt_path : {None, "user.ckpt"}, run_id : {"a", "b"}]

NoConfig ==
  [data_dir |-> "???", has_data |-> FALSE, has_model |-> FALSE,
   ckpt_path |-> None, run_id |-> "a"]

\* A configuration an earlier run left in the working directory.
OldConfig ==
  [data_dir |-> "/data", has_data |-> TRUE, has_model |-> TRUE,
   ckpt_path |-> None, run_id |-> "a"]

\* The seven partition files of the sweep, in the order train() uses them
\* (the part of the literal path that differs).
SplitFiles ==
  << "test_100_perc_of_nitrogen_100_perc_of_remaining",
     "test_80_perc_of_nitrogen_100_perc_of_remaining",
     "test_60_perc_of_nitrogen_100_perc_of_remaining",
     "test_40_perc_of_nitrogen_100_perc_of_remaining",
     "test_20_perc_of_nitrogen_100_perc_of_remaining",
     "test_0_perc_of_nitrogen_100_perc_of_remaining",
     "test_100_perc_of_nitrogen_0_perc_of_remaining" >>

NumPasses == Len(SplitFiles)

SplitPaths == {SplitFiles[k] : k \in 1..NumPasses}

\* A partition file: the lengths of its three index arrays.
Partition == [train_idx : 1..MaxCount, val_idx : 1..MaxCount, test_idx : 1..MaxCount]

VARIABLES
  fs,          \* the working directory
  npz,         \* the partition files: path -> Partition
  pc,          \* position of the train() process
  config,      \* the DictConfig of the running invocation
  entry,       \* the working directory and the configuration when the invocation started
  logged,      \* the log.error message of the invocation
  datamodule,  \* split_file and the three counts of the data module
  s_file,      \* the partition np.load returned last
  pass,        \* index of the evaluation pass
  calls,       \* the fit and test calls made on the trainer, in order
  best_task,   \* the task loaded from the best checkpoint
  runs,        \* invocations so far
  valid,       \* invocations so far that passed the configuration checks
  heap,        \* ExclusionTransformer: the mappings, by object identity
  inputs,      \* ExclusionTransformer: reference of the mapping passed in
  inputs0,     \* ExclusionTransformer: the mapping's content when forward was called
  excluded_atoms, \* ExclusionTransformer: self.excluded_atoms
  idx,         \* ExclusionTransformer: position of the for loop
  ret,         \* ExclusionTransformer: reference forward returned
  fpc          \* ExclusionTransformer: position of forward

trainVars ==
  << fs, npz, pc, config, entry, logged, datamodule, s_file, pass, calls,
     best_task, runs, valid >>

exclVars == << heap, inputs, inputs0, excluded_atoms, idx, ret, fpc >>

vars == << trainVars, exclVars >>


\* ------------------------------------------------------------ train(): helpers
\* The yaml files of the working directory are keyed by number: ConfigYaml is
\* config.yaml, n >= 1 is config.old.<n>.yaml.
ConfigYaml == 0

\* os.path.exists(f"config.old.{n}.yaml") and os.path.exists("config.yaml")
Exists(dir, n) == n \in DOMAIN dir.yaml

\* open(name, "w") and OmegaConf.save(c, f, resolve=False)
Save(dir, n, c) ==
  [dir EXCEPT !.yaml = [k \in DOMAIN dir.yaml \cup {n} |-> IF k = n THEN c ELSE dir.yaml[k]]]

\* Mutant: the while loop is left out, count stays 1.
FreeCount_NoLoop(dir, count) == count

\* count = 1; while os.path.exists(f"config.old.{count}.yaml"): count += 1
RECURSIVE FreeCount(_, _)
FreeCount(dir, count) ==
  IF Exists(dir, count) THEN FreeCount(dir, count + 1) ELSE count

\* Mutant: the data_dir check looks at a key that is never missing.
IsMissing_Never(c) == FALSE

\* OmegaConf.is_missing(config, "run.data_dir")
IsMissing(c) == c.data_dir = "???"

\* "model" in config and "data" in config
HasSections(c) == c.has_model /\ c.has_data

\* Mutant: num_test and num_val take each other's array.
WithCounts_Swapped(dm, s) ==
  [dm EXCEPT !.num_train = s.train_idx, !.num_test = s.val_idx, !.num_val = s.test_idx]

\* len(s_file['train_idx']), len(s_file['test_idx']), len(s_file['val_idx'])
WithCounts(dm, s) ==
  [dm EXCEPT !.num_train = s.train_idx, !.num_test = s.test_idx, !.num_val = s.val_idx]

\* The data module as hydra instantiates it: the sweep has set nothing yet.
NewDatamodule == [split_file |-> None, num_train |-> 0, num_val |-> 0, num_test |-> 0]

NoPartition == [train_idx |-> 0, val_idx |-> 0, test_idx |-> 0]

Ended == {"idle", "returned", "aborted", "done"}

\* ------------------------------------------------------------ train(): steps
\* hydra.main builds the configuration and calls train(config).
Invoke ==
  /\ pc \in Ended
  /\ runs < MaxRuns
  /\ \E c \in Config : config' = c /\ entry' = [fs |-> fs, config |-> c]
  /\ runs' = runs + 1
  /\ logged' = None
  /\ datamodule' = NewDatamodule
  /\ s_file' = NoPartition
  /\ pass' = 1
  /\ calls' = << >>
  /\ best_task' = None
  /\ pc' = "check_data_dir"
  /\ UNCHANGED << fs, npz, valid, exclVars >>

\* if OmegaConf.is_missing(config, "run.data_dir"): log.error(...); return
CheckDataDir ==
  /\ pc = "check_data_dir"
  /\ IF IsMissing(config)
       THEN logged' = "data_dir" /\ pc' = "returned"
       ELSE logged' = logged /\ pc' = "check_sections"
  /\ UNCHANGED << fs, npz, config, entry, datamodule, s_file, pass, calls, best_task, runs, valid, exclVars >>

\* if not ("model" in config and "data" in config): log.error(...); return
CheckSections ==
  /\ pc = "check_sections"
  /\ IF ~HasSections(config)
       THEN logged' = "data_and_model" /\ pc' = "returned" /\ valid' = valid
       ELSE logged' = logged /\ pc' = "config_yaml" /\ valid' = valid + 1
  /\ UNCHANGED << fs, npz, config, entry, datamodule, s_file, pass, calls, best_task, runs, exclVars >>

\* Mutant: the archive is written one index after the first free one.
ArchiveOldConfig_Skip ==
  /\ pc = "config_yaml"
  /\ Exists(fs, ConfigYaml)
  /\ fs' = Save(fs, FreeCount(fs, 1) + 1, fs.yaml[ConfigYaml])
  /\ pc' = "ckpt_path"
  /\ UNCHANGED << npz, config, entry, logged, datamodule, s_file, pass, calls, best_task, runs, valid, exclVars >>

\* if os.path.exists("config.yaml"): the old configuration is loaded and saved
\* under the first free config.old.<count>.yaml.
ArchiveOldConfig ==
  /\ pc = "config_yaml"
  /\ Exists(fs, ConfigYaml)
  /\ LET old_config == fs.yaml[ConfigYaml]
         count == FreeCount(fs, 1)
     IN fs' = Save(fs, count, old_config)
  /\ pc' = "ckpt_path"
  /\ UNCHANGED << npz, config, entry, logged, datamodule, s_file, pass, calls, best_task, runs, valid, exclVars >>

\* Mutant: the test "config.run.ckpt_path is None" is left out.
ResumeCheckpoint_Always ==
  /\ pc = "ckpt_path"
  /\ config' = IF fs.last_ckpt
                 THEN [config EXCEPT !.ckpt_path = "checkpoints/last.ckpt"]
                 ELSE config
  /\ pc' = "setup"
  /\ UNCHANGED << fs, npz, entry, logged, datamodule, s_file, pass, calls, best_task, runs, valid, exclVars >>

\* if config.run.ckpt_path is None and os.path.exists("checkpoints/last.ckpt")
ResumeCheckpoint ==
  /\ pc = "ckpt_path"
  /\ config' = IF config.ckpt_path = None /\ fs.last_ckpt
                 THEN [config EXCEPT !.ckpt_path = "checkpoints/last.ckpt"]
                 ELSE config
  /\ pc' = "setup"
  /\ UNCHANGED << fs, npz, entry, logged, datamodule, s_file, pass, calls, best_task, runs, valid, exclVars >>

\* else: with open("config.yaml", "w") as f: OmegaConf.save(config, f, resolve=False)
WriteConfig ==
  /\ pc = "config_yaml"
  /\ ~Exists(fs, ConfigYaml)
  /\ fs' = Save(fs, ConfigYaml, config)
  /\ pc' = "setup"
  /\ UNCHANGED << npz, config, entry, logged, datamodule, s_file, pass, calls, best_task, runs, valid, exclVars >>

\* os.makedirs(config.run.data_dir), then the data module, the model, the task,
\* the callbacks, the loggers and the trainer are instantiated; any of them
\* may raise.
Setup ==
  /\ pc = "setup"
  /\ fs' = [fs EXCEPT !.data_dir = TRUE]
  /\ pc' \in {"split_file", "aborted"}
  /\ UNCHANGED << npz, config, entry, logged, datamodule, s_file, pass, calls, best_task, runs, valid, exclVars >>

\* datamodule.split_file = '...'
AssignSplit ==
  /\ pc = "split_file"
  /\ datamodule' = [datamodule EXCEPT !.split_file = SplitFiles[pass]]
  /\ pc' = "np_load"
  /\ UNCHANGED << fs, npz, config, entry, logged, s_file, pass, calls, best_task, runs, valid, exclVars >>

\* s_file = np.load(datamodule.split_file); raises when the file cannot be read
LoadSplit ==
  /\ pc = "np_load"
  /\ \/ s_file' = npz[datamodule.split_file] /\ pc' = "counts"
     \/ s_file' = s_file /\ pc' = "aborted"
  /\ UNCHANGED << fs, npz, config, entry, logged, datamodule, pass, calls, best_task, runs, valid, exclVars >>

\* datamodule.num_train, num_test, num_val = the lengths of s_file's arrays
AssignCounts ==
  /\ pc = "counts"
  /\ datamodule' = WithCounts(datamodule, s_file)
  /\ pc' = "test"
  /\ UNCHANGED << fs, npz, config, entry, logged, s_file, pass, calls, best_task, runs, valid, exclVars >>

\* trainer.test(model=task, datamodule=datamodule); the next pass follows, and
\* after the last one the export.
Test ==
  /\ pc = "test"
  /\ calls' = Append(calls, [op |-> "test", datamodule |-> datamodule])
  /\ IF pass < NumPasses
       THEN pass' = pass + 1 /\ pc' = "split_file"
       ELSE pass' = pass /\ pc' = "best_path"
  /\ UNCHANGED << fs, npz, config, entry, logged, datamodule, s_file, best_task, runs, valid, exclVars >>

\* Mutant: a checkpoint that cannot be loaded is caught and the export goes on.
LoadBest_Continue ==
  /\ pc = "best_path"
  /\ \/ best_task' = "loaded" /\ pc' = "save_task"
     \/ best_task' = best_task /\ pc' = "save_task"
  /\ UNCHANGED << fs, npz, config, entry, logged, datamodule, s_file, pass, calls, runs, valid, exclVars >>

\* best_path = trainer.checkpoint_callback.best_model_path
\* best_task = type(task).load_from_checkpoint(best_path); raises when the
\* checkpoint cannot be located or loaded.
LoadBest ==
  /\ pc = "best_path"
  /\ \/ best_task' = "loaded" /\ pc' = "save_task"
     \/ best_task' = best_task /\ pc' = "aborted"
  /\ UNCHANGED << fs, npz, config, entry, logged, datamodule, s_file, pass, calls, runs, valid, exclVars >>

\* torch.save(best_task, config.globals.model_path + ".task")
SaveTask ==
  /\ pc = "save_task"
  /\ fs' = [fs EXCEPT !.task_file = runs]
  /\ pc' = "save_model"
  /\ UNCHANGED << npz, config, entry, logged, datamodule, s_file, pass, calls, best_task, runs, valid, exclVars >>

\* best_task.save_model(config.globals.model_path, do_postprocessing=True)
SaveModel ==
  /\ pc = "save_model"
  /\ fs' = [fs EXCEPT !.model_file = runs]
  /\ pc' = "done"
  /\ UNCHANGED << npz, config, entry, logged, datamodule, s_file, pass, calls, best_task, runs, valid, exclVars >>

Next ==
  \/ Invoke
  \/ CheckDataDir
  \/ CheckSections
  \/ ArchiveOldConfig
  \/ ResumeCheckpoint
  \/ WriteConfig
  \/ Setup
  \/ AssignSplit
  \/ LoadSplit
  \/ AssignCounts
  \/ Test
  \/ LoadBest
  \/ SaveTask
  \/ SaveModel

\* ------------------------------------------------------------ initial states
\* A working directory: any of config.yaml and config.old.1..MaxArchive.yaml
\* may be there from earlier runs.
Dirs(present) ==
  [yaml : {[k \in S |-> OldConfig] : S \in present},
   last_ckpt : BOOLEAN, data_dir : {FALSE}, task_file : {0}, model_file : {0}]

\* Every partition file holds the same partition, its three arrays equally long.
SameNpz == {[p \in SplitPaths |-> [train_idx |-> n, val_idx |-> n, test_idx |-> n]] : n \in 1..MaxCount}

\* The odd files of the sweep hold a, the even ones b.
AlternateNpz(a, b) ==
  [p \in SplitPaths |->
     IF \E k \in 1..NumPasses : SplitFiles[k] = p /\ k % 2 = 1 THEN a ELSE b]

ExclIdle ==
  /\ heap = << >>
  /\ inputs = 0
  /\ inputs0 = [Z |-> << >>, R |-> << >>]
  /\ excluded_atoms = << >>
  /\ idx = 0
  /\ ret = 0
  /\ fpc = "idle"

InitTrain(dirs, parts, r) ==
  /\ fs \in dirs
  /\ npz \in parts
  /\ pc = "idle"
  /\ config = NoConfig
  /\ entry = [fs |-> fs, config |-> NoConfig]
  /\ logged = None
  /\ datamodule = NewDatamodule
  /\ s_file = NoPartition
  /\ pass = 1
  /\ calls = << >>
  /\ best_task = None
  /\ runs = r
  /\ valid = 0
  /\ ExclIdle

\* Any working directory, MaxRuns invocations.
Init ==
  InitTrain(Dirs(SUBSET (0..MaxArchive)),
            SameNpz, 0)

Spec == Init /\ [][Next]_vars

\* An empty working directory, MaxRuns invocations.
InitFresh ==
  InitTrain(Dirs({{}}), SameNpz, 0)

SpecFresh == InitFresh /\ [][Next]_vars

\* One invocation, in a directory with or without config.yaml, over partition
\* files that differ.
InitSweep ==
  InitTrain(Dirs({{}, {ConfigYaml}}),
            {AlternateNpz(a, b) : a \in Partition, b \in Partition}, MaxRuns - 1)

SpecSweep == InitSweep /\ [][Next]_vars


\* ------------------------------------------------ ExclusionTransformer.forward
\* An entry of excluded_atoms: None or a number.
NoneAtom == [none |-> TRUE, n |-> 0]

Atom(n) == [none |-> FALSE, n |-> n]

\* Atomic numbers of a tensor (0 is a masked or padded position), and the
\* numbers an exclusion list may name (8 is in no tensor).
AtomNums == {0, 1, 6, 7}

ExclNums == {0, 1, 7, 8}

ExclEntries == {NoneAtom} \cup {Atom(n) : n \in ExclNums}

SeqsUpTo(S, n) == UNION {[1..k -> S] : k \in 0..n}

\* The mapping of a batch: the atomic numbers Z and another per-atom tensor R.
Batch(z) == [Z |-> z, R |-> [i \in 1..Len(z) |-> i]]

\* Mutant: the truthiness test is left out.
Truthy_Always(e) == TRUE

\* if excluded_atom:
Truthy(e) == ~e.none /\ e.n # 0

\* Tensor.__contains__ accepts a scalar and raises for None.
IsScalar(e) == ~e.none

\* excluded_atom in inputs[structure.Z]
Contains(z, e) == \E i \in 1..Len(z) : z[i] = e.n

\* Mutant: only the first matching position is set to 0.
MaskedFill_First(z, e) ==
  [i \in 1..Len(z) |->
     IF z[i] = e.n /\ (\A j \in 1..(i - 1) : z[j] # e.n) THEN 0 ELSE z[i]]

\* inputs[structure.Z][inputs[structure.Z] == excluded_atom] = 0
MaskedFill(z, e) == [i \in 1..Len(z) |-> IF z[i] = e.n THEN 0 ELSE z[i]]

\* forward(self, inputs) is called.
ForwardCall ==
  /\ fpc = "ready"
  /\ inputs0' = heap[inputs]
  /\ idx' = 1
  /\ fpc' = "for"
  /\ UNCHANGED << heap, inputs, excluded_atoms, ret, trainVars >>

\* One iteration of: for excluded_atom in self.excluded_atoms
ForwardLoop ==
  /\ fpc = "for"
  /\ idx <= Len(excluded_atoms)
  /\ LET excluded_atom == excluded_atoms[idx]
     IN IF ~Truthy(excluded_atom)
          THEN heap' = heap /\ fpc' = fpc
          ELSE IF ~IsScalar(excluded_atom)
                 THEN heap' = heap /\ fpc' = "raised"
                 ELSE /\ fpc' = fpc
                      /\ heap' = IF Contains(heap[inputs].Z, excluded_atom)
                                   THEN [heap EXCEPT ![inputs].Z = MaskedFill(@, excluded_atom)]
                                   ELSE heap
  /\ idx' = idx + 1
  /\ UNCHANGED << inputs, inputs0, excluded_atoms, ret, trainVars >>

\* return inputs
ForwardReturn ==
  /\ fpc = "for"
  /\ idx > Len(excluded_atoms)
  /\ ret' = inputs
  /\ fpc' = "returned"
  /\ UNCHANGED << heap, inputs, inputs0, excluded_atoms, idx, trainVars >>

NextExcl ==
  \/ ForwardCall
  \/ ForwardLoop
  \/ ForwardReturn

\* A transformer constructed with an exclusion list, and a batch to transform.
InitExcl ==
  /\ fs \in Dirs({{}})
  /\ ~fs.last_ckpt
  /\ npz \in {f \in SameNpz : f[SplitFiles[1]].train_idx = 1}
  /\ pc = "idle"
  /\ config = NoConfig
  /\ entry = [fs |-> fs, config |-> NoConfig]
  /\ logged = None
  /\ datamodule = NewDatamodule
  /\ s_file = NoPartition
  /\ pass = 1
  /\ calls = << >>
  /\ best_task = None
  /\ runs = 0
  /\ valid = 0
  /\ excluded_atoms \in SeqsUpTo(ExclEntries, MaxExcl)
  /\ heap \in {<< Batch(z) >> : z \in SeqsUpTo(AtomNums, MaxLen)}
  /\ inputs = 1
  /\ inputs0 = heap[inputs]
  /\ idx = 0
  /\ ret = 0
  /\ fpc = "ready"

SpecExcl == InitExcl /\ [][NextExcl]_vars


\* ------------------------------------------------------------------ claims
\* The invocation has passed both configuration checks and has executed the
\* config.yaml step (the archive or the first write); nothing raises earlier.
PastConfigYaml ==
  pc \in {"ckpt_path", "setup", "split_file", "np_load", "counts", "test",
          "best_path", "save_task", "save_model", "done", "aborted"}

\* The indices n of the config.old.<n>.yaml files of a directory.
ArchiveIdx(dir) == DOMAIN dir.yaml \ {ConfigYaml}

MaxIdx(S) == IF S = {} THEN 0 ELSE CHOOSE m \in S : \A k \in S : k <= m

Archived == PastConfigYaml /\ Exists(entry.fs, ConfigYaml)

\* C2 as stated: with config.yaml present, exactly one new archive file
\* config.old.<n>.yaml is created, n being one plus the highest index that
\* existed before (1 when none did), gaps or not.
C2_NextAfterHighest ==
  Archived =>
    ArchiveIdx(fs) \ ArchiveIdx(entry.fs) = {MaxIdx(ArchiveIdx(entry.fs)) + 1}

\* C2 amended: with config.yaml present, exactly one new archive file
\* config.old.<n>.yaml is created, n being the lowest index >= 1 at which no
\* archive file existed before; the files that existed are kept as they were
\* and the new one holds the old config.yaml.
C2_FirstFree ==
  Archived =>
    \E n \in 1..(Cardinality(ArchiveIdx(entry.fs)) + 1) :
      /\ n \notin ArchiveIdx(entry.fs)
      /\ \A k \in 1..(n - 1) : k \in ArchiveIdx(entry.fs)
      /\ ArchiveIdx(fs) \ ArchiveIdx(entry.fs) = {n}
      /\ \A k \in ArchiveIdx(entry.fs) : k \in ArchiveIdx(fs) /\ fs.yaml[k] = entry.fs.yaml[k]
      /\ fs.yaml[n] = entry.fs.yaml[ConfigYaml]

\* C2 witness: the directory held config.old.1 and config.old.3, and the
\* archive step has written config.old.2.
C2_Witness ==
  /\ Archived
  /\ ArchiveIdx(entry.fs) = {1, 3}
  /\ ArchiveIdx(fs) = {1, 2, 3}

\* C3: once an invocation with a valid configuration is past the config.yaml
\* step, config.yaml holds the configuration of that invocation.
C3_ConfigYamlIsLatest ==
  PastConfigYaml =>
    /\ Exists(fs, ConfigYaml)
    /\ fs.yaml[ConfigYaml].run_id = entry.config.run_id

\* The invocation is past the checkpoint probe (or, without config.yaml, past
\* the first write of config.yaml).
PastResume == PastConfigYaml /\ pc # "ckpt_path"

\* C4 as stated: for every invocation that passes the checks, an unset
\* run.ckpt_path becomes checkpoints/last.ckpt when that file exists and stays
\* unset when it does not; an explicit run.ckpt_path is never replaced.
C4_AdoptLastAlways ==
  PastResume =>
    config.ckpt_path =
      IF entry.config.ckpt_path = None /\ entry.fs.last_ckpt
        THEN "checkpoints/last.ckpt"
        ELSE entry.config.ckpt_path

\* C4 amended: the probe happens only when config.yaml existed at the start of
\* the invocation: then an unset run.ckpt_path becomes checkpoints/last.ckpt
\* when that file exists and stays unset when it does not.  Without
\* config.yaml run.ckpt_path stays as supplied, whether or not
\* checkpoints/last.ckpt exists.  An explicit run.ckpt_path is never replaced.
C4_AdoptLastOnResume ==
  PastResume =>
    config.ckpt_path =
      IF entry.config.ckpt_path = None /\ entry.fs.last_ckpt /\ Exists(entry.fs, ConfigYaml)
        THEN "checkpoints/last.ckpt"
        ELSE entry.config.ckpt_path

\* C4 witness: config.yaml and checkpoints/last.ckpt existed, run.ckpt_path was
\* unset and is now checkpoints/last.ckpt.
C4_Witness ==
  /\ PastResume
  /\ Exists(entry.fs, ConfigYaml)
  /\ entry.fs.last_ckpt
  /\ entry.config.ckpt_path = None
  /\ config.ckpt_path = "checkpoints/last.ckpt"

\* The exclusion list holds only truthy entries / only falsy entries.
AllTruthy == \A j \in 1..Len(excluded_atoms) : ~excluded_atoms[j].none /\ excluded_atoms[j].n # 0

AllFalsy == \A j \in 1..Len(excluded_atoms) : excluded_atoms[j].none \/ excluded_atoms[j].n = 0

\* Position i of the atomic numbers held an excluded (non-zero) number.
Excluded(i) ==
  \E j \in 1..Len(excluded_atoms) :
    ~excluded_atoms[j].none /\ excluded_atoms[j].n # 0 /\ excluded_atoms[j].n = inputs0.Z[i]

C6_FalsySkipped ==
  /\ fpc # "raised"
  /\ (fpc = "returned" /\ AllFalsy) => (ret = inputs /\ heap[ret] = inputs0)
  /\ fpc = "returned" =>
       /\ Len(heap[ret].Z) = Len(inputs0.Z)
       /\ \A i \in 1..Len(inputs0.Z) :
            heap[ret].Z[i] = IF Excluded(i) THEN 0 ELSE inputs0.Z[i]

\* C6 witness: forward has returned for the exclusion list [0, None] and
\* atomic numbers holding a 0 and a 7.
C6_Witness ==
  /\ fpc = "returned"
  /\ excluded_atoms = << Atom(0), NoneAtom >>
  /\ inputs0.Z = << 7, 0, 1 >>
  /\ heap[ret].Z = << 7, 0, 1 >>

\* C7: train() makes exactly one fit call on the trainer, and it is made
\* before the first test call.
C7_OneFitBeforeTests ==
  /\ Len(calls) > 0 => calls[1].op = "fit"
  /\ pc \in {"best_path", "save_task", "save_model", "done"} =>
       Cardinality({i \in 1..Len(calls) : calls[i].op = "fit"}) = 1

\* C8: after the sweep the best checkpoint is loaded before anything is
\* written: a run that ends normally has loaded it and has written both the
\* task snapshot and the deployment model; a run that raises on the load has
\* written neither; no artifact is written by a run that has not loaded it.
C8_ExportAfterLoad ==
  /\ pc = "done" =>
       (best_task = "loaded" /\ fs.task_file = runs /\ fs.model_file = runs)
  /\ (pc = "aborted" /\ Len(calls) = NumPasses) =>
       /\ best_task = None
       /\ fs.task_file = entry.fs.task_file
       /\ fs.model_file = entry.fs.model_file
  /\ (fs.task_file # entry.fs.task_file \/ fs.model_file # entry.fs.model_file) =>
       best_task = "loaded"
  /\ fs.model_file # entry.fs.model_file => fs.task_file = runs

\* C8 witness: the first run has exported both artifacts and the second one
\* has raised on the load of the best checkpoint, leaving them as they were.
C8_Witness ==
  /\ pc = "aborted"
  /\ Len(calls) = NumPasses
  /\ runs = 2
  /\ fs.task_file = 1
  /\ fs.model_file = 1

\* The data module refers to partition file k and its counts are the lengths
\* of that file's arrays.
CountsOf(dm, k) ==
  /\ dm.split_file = SplitFiles[k]
  /\ dm.num_train = npz[dm.split_file].train_idx
  /\ dm.num_val = npz[dm.split_file].val_idx
  /\ dm.num_test = npz[dm.split_file].test_idx

\* C9: the passes follow each other on the one data module; in each pass the
\* split reference is assigned first, then the counts from that same file,
\* then the test call is made: every test call, the k-th being on the k-th
\* partition file, sees num_train, num_val and num_test equal to the lengths
\* of train_idx, val_idx and test_idx of the file split_file refers to.
C9_CountsMatchSplit ==
  /\ \A k \in 1..Len(calls) :
       calls[k].op = "test" => CountsOf(calls[k].datamodule, k)
  /\ pc = "test" => (Len(calls) = pass - 1 /\ CountsOf(datamodule, pass))
  /\ pc = "counts" =>
       (datamodule.split_file = SplitFiles[pass] /\ s_file = npz[SplitFiles[pass]])
  /\ pc = "np_load" => datamodule.split_file = SplitFiles[pass]

\* C9 witness: the sweep is over, and the first two partition files differ in
\* their counts, as the first two test calls saw them.
C9_Witness ==
  /\ Len(calls) = NumPasses
  /\ calls[1].datamodule.num_train = 1
  /\ calls[1].datamodule.num_val = 1
  /\ calls[1].datamodule.num_test = 2
  /\ calls[2].datamodule.num_train = 2
  /\ calls[2].datamodule.num_val = 2
  /\ calls[2].datamodule.num_test = 1

\* Invocations that have executed the config.yaml step.
Saved == IF pc = "config_yaml" THEN valid - 1 ELSE valid

\* C10: from an empty working directory, after m >= 1 invocations with valid
\* configurations the archive files are exactly config.old.1 ..
\* config.old.(m-1), and no step overwrites or deletes an archive file.
C10_ContiguousArchives ==
  [][ /\ \A k \in ArchiveIdx(fs) : k \in ArchiveIdx(fs') /\ fs'.yaml[k] = fs.yaml[k]
      /\ Saved' >= 1 => ArchiveIdx(fs') = 1..(Saved' - 1)
      /\ Saved' = 0 => ArchiveIdx(fs') = {} ]_vars

\* C10 witness: three valid invocations have left config.old.1 and
\* config.old.2.
C10_Witness ==
  /\ valid = 3
  /\ pc = "done"
  /\ ArchiveIdx(fs) = {1, 2}

=============================================================================
